---- MODULE Spec2Model ----
(***************************************************************************)
(* nixdoc (src/src/main.rs): the doc-comment parser, the extraction of     *)
(* documented identifiers from the syntax tree, and the rendering of the   *)
(* manual entries to the XML event writer.                                 *)
(*                                                                         *)
(* Strings are sequences of one-character strings, so that trimming, line  *)
(* splitting, prefix tests and formatting are computed, not assumed.       *)
(***************************************************************************)
EXTENDS Integers, Sequences, FiniteSets, TLC

VARIABLES
    pc,          \* position of the program
    \* ---- parse_doc_comment (lines 147-194)
    raw,         \* the argument `raw`
    lines,       \* what is left of the iterator raw.trim().lines()
    parser,      \* the locals doc, doc_type, example, state
    comment,     \* the DocComment returned, <<>> before the return
    \* ---- retrieve_doc_comment / retrieve_doc_item on one node (lines 118-144)
    node,        \* the ASTNode looked at
    found,       \* Option<String> returned by retrieve_doc_comment
    item,        \* Option<DocItem> returned by retrieve_doc_item
    \* ---- main (lines 196-233)
    arena,       \* nix.arena, the nodes in iteration order
    category,    \* opts.category
    description, \* opts.description
    next_node,   \* how many nodes the iterator chain has consumed
    entries,     \* Vec<ManualEntry> collected so far
    next_entry,  \* how many entries the for loop has taken
    step,        \* which write of the current block comes next
    sink,        \* the events the EventWriter accepted, in order
    calls        \* the number of writer.write calls made

vars == <<pc, raw, lines, parser, comment, node, found, item, arena, category,
          description, next_node, entries, next_entry, step, sink, calls>>

parseVars == <<raw, lines, parser, comment>>
itemVars == <<node, found, item>>
mainVars == <<arena, category, description, next_node, entries, next_entry,
              step, sink, calls>>

(***************************************************************************)
(* Bounds of the model.                                                    *)
(***************************************************************************)
MaxTokens == 4
MaxTrivia == 3
MaxNodes == 3

(***************************************************************************)
(* Option<T>: None is the empty sequence, Some(x) the one-element one.     *)
(***************************************************************************)
None == <<>>
Some(x) == <<x>>

(***************************************************************************)
(* String primitives of the standard library, as the code uses them.       *)
(***************************************************************************)
Whitespace == {" ", "\t", "\n", "\r"}

MinOf(S) == CHOOSE i \in S : \A j \in S : i <= j
MaxOf(S) == CHOOSE i \in S : \A j \in S : j <= i

\* str::trim: without the leading and the trailing whitespace
Trim(s) ==
    LET keep == {i \in 1..Len(s) : s[i] \notin Whitespace}
    IN  IF keep = {} THEN <<>> ELSE SubSeq(s, MinOf(keep), MaxOf(keep))

\* str::starts_with
StartsWith(s, p) == Len(s) >= Len(p) /\ SubSeq(s, 1, Len(p)) = p

\* &s[n..]
DropFirst(s, n) == SubSeq(s, n + 1, Len(s))

\* str::trim_start_matches: removes the prefix as long as it is one
RECURSIVE TrimStartMatches(_, _)
TrimStartMatches(s, p) ==
    IF p # <<>> /\ StartsWith(s, p)
    THEN TrimStartMatches(DropFirst(s, Len(p)), p)
    ELSE s

\* a line of str::lines loses the "\r" of a "\r\n" ending
StripCR(s) ==
    IF s # <<>> /\ s[Len(s)] = "\r" THEN SubSeq(s, 1, Len(s) - 1) ELSE s

\* str::lines: split at "\n"; a final empty piece is no line
RECURSIVE Lines(_)
Lines(s) ==
    IF s = <<>> THEN <<>>
    ELSE LET nl == {i \in 1..Len(s) : s[i] = "\n"}
         IN  IF nl = {} THEN <<s>>
             ELSE <<StripCR(SubSeq(s, 1, MinOf(nl) - 1))>>
                  \o Lines(DropFirst(s, MinOf(nl)))

(***************************************************************************)
(* parse_doc_comment                                                       *)
(***************************************************************************)
DocMarker == <<"@", "d", "o", "c", " ">>
TypeMarker == <<"T", "y", "p", "e", ":">>
ExampleMarker == <<"E", "x", "a", "m", "p", "l", "e", ":">>
TypeMarkerLen == 5

\* line 160
StripDocMarker(line) == TrimStartMatches(line, DocMarker)
StripTypeMarkerRepeated(line) == TrimStartMatches(line, TypeMarker)

\* line 165
StripTypeMarker(line) == DropFirst(line, TypeMarkerLen)
\* line 170
StripExampleMarker(line) == TrimStartMatches(line, ExampleMarker)

\* lines 158-171: the three marker tests, in the order of the code, each on
\* what the one before left; gives the state and the line after them
Classify(st, line) ==
    LET s1 == IF StartsWith(line, DocMarker) THEN "Doc" ELSE st
        l1 == IF StartsWith(line, DocMarker) THEN StripDocMarker(line) ELSE line
        s2 == IF StartsWith(l1, TypeMarker) THEN "Type" ELSE s1
        l2 == IF StartsWith(l1, TypeMarker) THEN StripTypeMarker(l1) ELSE l1
        s3 == IF StartsWith(l2, ExampleMarker) THEN "Example" ELSE s2
        l3 == IF StartsWith(l2, ExampleMarker) THEN StripExampleMarker(l2) ELSE l2
    IN  [state |-> s3, line |-> l3]

PushLineNoNewline(p, line) ==
    CASE p.state = "Type" -> [p EXCEPT !.doc_type = @ \o Trim(line)]
      [] p.state = "Doc" -> [p EXCEPT !.doc = @ \o Trim(line)]
      [] p.state = "Example" -> [p EXCEPT !.example = @ \o Trim(line) \o <<"\n">>]

\* lines 173-183: the match on the state
PushLine(p, line) ==
    CASE p.state = "Type" -> [p EXCEPT !.doc_type = @ \o Trim(line)]
      [] p.state = "Doc" -> [p EXCEPT !.doc = @ \o Trim(line) \o <<"\n">>]
      [] p.state = "Example" -> [p EXCEPT !.example = @ \o Trim(line) \o <<"\n">>]

\* lines 150-153
ParseStart ==
    [doc |-> <<>>, doc_type |-> <<>>, example |-> <<>>, state |-> "Doc"]

\* lines 156-183: one iteration of the loop
ParseLine(p, l) ==
    LET c == Classify(p.state, Trim(l))
    IN  PushLine([p EXCEPT !.state = c.state], c.line)

RECURSIVE ParseLines(_, _)
ParseLines(p, ls) ==
    IF ls = <<>> THEN p ELSE ParseLines(ParseLine(p, Head(ls)), Tail(ls))

\* line 187
f(s) == IF s = <<>> THEN None ELSE Some(s)

\* lines 189-193
ParseReturn(p) ==
    [doc |-> Trim(p.doc), doc_type |-> f(p.doc_type), example |-> f(p.example)]

parse_doc_comment(r) == ParseReturn(ParseLines(ParseStart, Lines(Trim(r))))

(***************************************************************************)
(* The raw comments the parser is run on: every concatenation of at most   *)
(* MaxTokens tokens, and the three comments the specification quotes.      *)
(***************************************************************************)
Foo == <<"f", "o", "o">>
Bar == <<"b", "a", "r">>
Tokens == {<<" ">>, <<"\n">>, DocMarker, TypeMarker, ExampleMarker, Foo, Bar}

RECURSIVE Flatten(_)
Flatten(ts) == IF ts = <<>> THEN <<>> ELSE Head(ts) \o Flatten(Tail(ts))

\* " @doc\nDoubles a number.\nType:\n  int -> int\n"
DoubleComment ==
    <<" ", "@", "d", "o", "c", "\n", "D", "o", "u", "b", "l", "e", "s", " ",
      "a", " ", "n", "u", "m", "b", "e", "r", ".", "\n", "T", "y", "p", "e",
      ":", "\n", " ", " ", "i", "n", "t", " ", "-", ">", " ", "i", "n", "t",
      "\n">>
\* "Type:\n  a ->\n  b"
TypeContinuation ==
    <<"T", "y", "p", "e", ":", "\n", " ", " ", "a", " ", "-", ">", "\n", " ",
      " ", "b">>

\* "Example:\nfoo\nbar"
ExampleBlock == ExampleMarker \o <<"\n">> \o Foo \o <<"\n">> \o Bar

RawInputs ==
    {Flatten(ts) : ts \in UNION {[1..n -> Tokens] : n \in 0..MaxTokens}}
    \cup {DoubleComment, TypeContinuation, ExampleBlock}

NoNode == [kind |-> "None", leading |-> <<>>, name |-> <<>>]

IdleParse == raw = <<>> /\ lines = <<>> /\ parser = ParseStart /\ comment = <<>>
IdleItem == node = NoNode /\ found = None /\ item = None
IdleMain ==
    /\ arena = <<>> /\ category = <<>> /\ description = <<>>
    /\ next_node = 0 /\ entries = <<>> /\ next_entry = 0 /\ step = 1
    /\ sink = <<>> /\ calls = 0

(***************************************************************************)
(* SpecParse: parse_doc_comment run on one raw comment, a line at a time.  *)
(***************************************************************************)
InitParse ==
    /\ pc = "parse"
    /\ raw \in RawInputs
    /\ lines = Lines(Trim(raw))
    /\ parser = ParseStart
    /\ comment = <<>>
    /\ IdleItem /\ IdleMain

\* lines 155-184: the loop body on the next line
ParseLoop ==
    /\ pc = "parse" /\ lines # <<>>
    /\ parser' = ParseLine(parser, Head(lines))
    /\ lines' = Tail(lines)
    /\ UNCHANGED <<pc, raw, comment, itemVars, mainVars>>

\* lines 187-193: the loop is over, the DocComment is built
ParseDone ==
    /\ pc = "parse" /\ lines = <<>>
    /\ comment' = ParseReturn(parser)
    /\ pc' = "parsed"
    /\ UNCHANGED <<raw, lines, parser, itemVars, mainVars>>

NextParse == ParseLoop \/ ParseDone

SpecParse == InitParse /\ [][NextParse]_vars

(***************************************************************************)
(* Claims about parse_doc_comment, checked under SpecParse.                *)
(***************************************************************************)
\* the lines of the trimmed input, each trimmed
TrimmedLines(r) == [i \in 1..Len(Lines(Trim(r))) |-> Trim(Lines(Trim(r))[i])]

RECURSIVE JoinLines(_)
JoinLines(ls) ==
    IF ls = <<>> THEN <<>>
    ELSE IF Len(ls) = 1 THEN Head(ls)
    ELSE Head(ls) \o <<"\n">> \o JoinLines(Tail(ls))

RECURSIVE Concat(_)
Concat(ls) == IF ls = <<>> THEN <<>> ELSE Head(ls) \o Concat(Tail(ls))

IsMarkerLine(t) ==
    StartsWith(t, DocMarker) \/ StartsWith(t, TypeMarker)
    \/ StartsWith(t, ExampleMarker)

NoMarkers(r) == \A i \in 1..Len(TrimmedLines(r)) : ~IsMarkerLine(TrimmedLines(r)[i])

\* C2 (as claimed): when a line `Example:` is followed by the lines `foo` and
\* `bar`, which end the comment, example is Some("foo\nbar"), without a
\* leading or a trailing newline.
C2_ExampleJoined ==
    (/\ pc = "parsed"
     /\ LET t == TrimmedLines(raw)
        IN  /\ Len(t) >= 3
            /\ t[Len(t) - 2] = ExampleMarker
            /\ t[Len(t) - 1] = Foo
            /\ t[Len(t)] = Bar
            /\ \A i \in 1..(Len(t) - 3) : ~StartsWith(t[i], ExampleMarker))
    => comment.example = Some(Foo \o <<"\n">> \o Bar)

\* C3 (as claimed): doc_type is None exactly when the text accumulated for
\* Type is empty after trimming, example is None exactly when the text
\* accumulated for Example is empty after trimming, and neither is ever Some
\* of an empty or whitespace-only string.
C3_NoneIffEmptyAfterTrim ==
    pc = "parsed" =>
        /\ (comment.doc_type = None) <=> (Trim(parser.doc_type) = <<>>)
        /\ (comment.example = None) <=> (Trim(parser.example) = <<>>)
        /\ comment.doc_type # None => Trim(comment.doc_type[1]) # <<>>
        /\ comment.example # None => Trim(comment.example[1]) # <<>>

\* C4 (as claimed): with no marker line, doc is the input trimmed as a whole,
\* doc_type and example are None.
C4_DocIsTrimmedInput ==
    (pc = "parsed" /\ NoMarkers(raw)) =>
        /\ comment.doc = Trim(raw)
        /\ comment.doc_type = None
        /\ comment.example = None

\* C4 (amended): with no marker line, doc is the lines of the trimmed input,
\* each trimmed on its own, joined by single newlines; doc_type and example
\* are None.
C4_DocIsTrimmedLines ==
    (pc = "parsed" /\ NoMarkers(raw)) =>
        /\ comment.doc = JoinLines(TrimmedLines(raw))
        /\ comment.doc_type = None
        /\ comment.example = None

\* an inner line with leading whitespace: "foo\n bar" gives "foo\nbar"
C4_Witness ==
    /\ pc = "parsed"
    /\ raw = Foo \o <<"\n", " ">> \o Bar
    /\ NoMarkers(raw)
    /\ comment.doc = Foo \o <<"\n">> \o Bar
    /\ comment.doc # Trim(raw)

\* the Option the code makes of an accumulated text
OptionOf(s) == IF s = <<>> THEN None ELSE Some(s)

\* C5 as claimed: a line is in the Type section when a line at or before it
\* starts with `Type:` and no line after that one, up to it, starts with
\* `@doc ` or `Example:`
ClaimedTypeLine(t, i) ==
    \E j \in 1..i :
        /\ StartsWith(t[j], TypeMarker)
        /\ \A k \in (j + 1)..i :
               ~StartsWith(t[k], DocMarker) /\ ~StartsWith(t[k], ExampleMarker)

ClaimedTypeContent(l) ==
    Trim(IF StartsWith(l, TypeMarker) THEN DropFirst(l, Len(TypeMarker)) ELSE l)

ClaimedType(r) ==
    LET t == TrimmedLines(r)
    IN  Concat([i \in 1..Len(t) |->
                   IF ClaimedTypeLine(t, i) THEN ClaimedTypeContent(t[i])
                   ELSE <<>>])

\* C5 (as claimed): doc_type is the concatenation, without separator, of the
\* trimmed marker-stripped content of the lines from a line starting with
\* `Type:` up to the next line starting with `@doc ` or `Example:`.
C5_TypeSection ==
    pc = "parsed" => comment.doc_type = OptionOf(ClaimedType(raw))

\* the markers one line holds, read off the line's text: the leading
\* repetitions of `@doc `, then `Type:`, then `Example:`
DocReps(l) ==
    MaxOf({n \in 0..(Len(l) \div Len(DocMarker)) :
              \A m \in 1..n :
                  SubSeq(l, Len(DocMarker) * (m - 1) + 1, Len(DocMarker) * m)
                  = DocMarker})
AfterDoc(l) == DropFirst(l, Len(DocMarker) * DocReps(l))
HasType(l) == StartsWith(AfterDoc(l), TypeMarker)
AfterType(l) ==
    IF HasType(l) THEN DropFirst(AfterDoc(l), Len(TypeMarker)) ELSE AfterDoc(l)
HasExample(l) == StartsWith(AfterType(l), ExampleMarker)
LastMarker(l) ==
    IF HasExample(l) THEN "Example"
    ELSE IF HasType(l) THEN "Type"
    ELSE IF DocReps(l) > 0 THEN "Doc"
    ELSE "none"

TypeLine(t, i) ==
    \E j \in 1..i :
        /\ LastMarker(t[j]) = "Type"
        /\ \A k \in (j + 1)..i : LastMarker(t[k]) = "none"

TypeContent(l) == Trim(IF LastMarker(l) = "Type" THEN AfterType(l) ELSE l)

TypeText(r) ==
    LET t == TrimmedLines(r)
    IN  Concat([i \in 1..Len(t) |->
                   IF TypeLine(t, i) THEN TypeContent(t[i]) ELSE <<>>])

\* C5 (amended): doc_type is the concatenation, without separator, of the
\* trimmed marker-stripped content of the lines processed in state Type; a
\* line is processed in state Type exactly when the last marker recognised on
\* it or, if it holds none, on the nearest earlier line holding one, is
\* `Type:`, the markers of one line being recognised in the order `@doc `,
\* `Type:`, `Example:`, each at the start of what the one before left.
C5_TypeLines ==
    pc = "parsed" => comment.doc_type = OptionOf(TypeText(raw))

\* "Type:\n  a ->\n  b" gives Some("a ->b")
C5_Witness ==
    /\ pc = "parsed"
    /\ raw = TypeContinuation
    /\ comment.doc_type = Some(<<"a", " ", "-", ">", "b">>)

\* C10 (as claimed): a line starting with `Example:` (with `@doc `) switches
\* the state to Example (to Doc) and loses exactly that one occurrence of the
\* marker; what follows it, a repetition of the marker included, is appended
\* trimmed to the accumulator of the state.
C10_StripOneMarker ==
    [][(pc = "parse" /\ lines # <<>>) =>
          LET l == Trim(Head(lines))
              afterExample == DropFirst(l, Len(ExampleMarker))
              afterDoc == DropFirst(l, Len(DocMarker))
          IN  /\ StartsWith(l, ExampleMarker) =>
                  /\ parser'.state = "Example"
                  /\ parser'.example
                       = parser.example \o Trim(afterExample) \o <<"\n">>
              /\ (/\ StartsWith(l, DocMarker)
                  /\ ~StartsWith(afterDoc, TypeMarker)
                  /\ ~StartsWith(afterDoc, ExampleMarker)) =>
                  /\ parser'.state = "Doc"
                  /\ parser'.doc = parser.doc \o Trim(afterDoc) \o <<"\n">>
      ]_vars

(***************************************************************************)
(* The syntax tree, as far as the code reads it: a node is an identifier   *)
(* (Data::Ident(meta, name)) or something else, and its meta holds the     *)
(* leading trivia, each a comment (multiline or not) or whitespace.        *)
(***************************************************************************)
Spaces == [kind |-> "Spaces", multiline |-> FALSE, content |-> <<>>]
Newlines == [kind |-> "Newlines", multiline |-> FALSE, content |-> <<>>]
LineComment(c) == [kind |-> "Comment", multiline |-> FALSE, content |-> c]
BlockComment(c) == [kind |-> "Comment", multiline |-> TRUE, content |-> c]

Ident(name, leading) ==
    [kind |-> "Ident", leading |-> leading, name |-> name]
Token(leading) == [kind |-> "Token", leading |-> leading, name |-> <<>>]

RECURSIVE FirstComment(_)
FirstComment(leading) ==
    IF leading = <<>> THEN None
    ELSE IF Head(leading).kind = "Comment" THEN Some(Head(leading).content)
    ELSE FirstComment(Tail(leading))

\* lines 119-127: the loop over meta.leading
RECURSIVE FirstMultiline(_)
FirstMultiline(leading) ==
    IF leading = <<>> THEN None
    ELSE IF Head(leading).kind = "Comment" /\ Head(leading).multiline
         THEN Some(Head(leading).content)
    ELSE FirstMultiline(Tail(leading))

retrieve_doc_comment_any_comment(leading) == FirstComment(leading)

\* lines 118-128, on meta.leading
retrieve_doc_comment(leading) == FirstMultiline(leading)

retrieve_doc_item_any_node(n) ==
    IF retrieve_doc_comment(n.leading) = None THEN None
    ELSE Some([name |-> n.name,
               comment |-> parse_doc_comment(retrieve_doc_comment(n.leading)[1])])

\* lines 132-144
retrieve_doc_item(n) ==
    IF n.kind = "Ident"
    THEN IF retrieve_doc_comment(n.leading) = None THEN None
         ELSE Some([name |-> n.name,
                    comment |->
                        parse_doc_comment(retrieve_doc_comment(n.leading)[1])])
    ELSE None

(***************************************************************************)
(* SpecItem: retrieve_doc_comment and retrieve_doc_item run on one node.   *)
(***************************************************************************)
\* " @doc bar"
DocBar ==
    <<" ", "@", "d", "o", "c", " ", "b", "a", "r">>

TriviaChoices ==
    {Spaces, Newlines, LineComment(DocBar), BlockComment(Foo),
     BlockComment(DocBar)}

LeadingChoices == UNION {[1..n -> TriviaChoices] : n \in 0..MaxTrivia}

ItemNodes ==
    {Ident(<<"a">>, l) : l \in LeadingChoices}
    \cup {Token(l) : l \in LeadingChoices}

InitItem ==
    /\ pc = "classify"
    /\ node \in ItemNodes
    /\ found = None
    /\ item = None
    /\ IdleParse /\ IdleMain

\* lines 118-128
RetrieveDocComment ==
    /\ pc = "classify"
    /\ found' = retrieve_doc_comment(node.leading)
    /\ pc' = "extract"
    /\ UNCHANGED <<node, item, parseVars, mainVars>>

\* lines 132-144
RetrieveDocItem ==
    /\ pc = "extract"
    /\ item' = retrieve_doc_item(node)
    /\ pc' = "extracted"
    /\ UNCHANGED <<node, found, parseVars, mainVars>>

NextItem == RetrieveDocComment \/ RetrieveDocItem

SpecItem == InitItem /\ [][NextItem]_vars

IsBlock(tr) == tr.kind = "Comment" /\ tr.multiline

start_element(name, attrs) ==
    [event |-> "start_element", name |-> name, attrs |-> attrs, text |-> <<>>]
characters(text) ==
    [event |-> "characters", name |-> "", attrs |-> <<>>, text |-> text]
end_element ==
    [event |-> "end_element", name |-> "", attrs |-> <<>>, text |-> <<>>]
attr(name, value) == [name |-> name, value |-> value]

LibPrefix ==
    <<"l", "i", "b", ".">>
EntryIdPrefix ==
    <<"f", "u", "n", "c", "t", "i", "o", "n", "-", "l", "i", "b", "r", "a",
      "r", "y", "-">>
WrapperIdPrefix ==
    <<"s", "e", "c", "-", "f", "u", "n", "c", "t", "i", "o", "n", "s", "-",
      "l", "i", "b", "r", "a", "r", "y", "-">>
DocbookNs ==
    <<"h", "t", "t", "p", ":", "/", "/", "d", "o", "c", "b", "o", "o", "k",
      ".", "o", "r", "g", "/", "n", "s", "/", "d", "o", "c", "b", "o", "o",
      "k">>
XlinkNs ==
    <<"h", "t", "t", "p", ":", "/", "/", "w", "w", "w", ".", "w", "3", ".",
      "o", "r", "g", "/", "1", "9", "9", "9", "/", "x", "l", "i", "n", "k">>
XIncludeNs ==
    <<"h", "t", "t", "p", ":", "/", "/", "w", "w", "w", ".", "w", "3", ".",
      "o", "r", "g", "/", "2", "0", "0", "1", "/", "X", "I", "n", "c", "l",
      "u", "d", "e">>

\* lines 203-209: the ManualEntry made of a DocItem
ManualEntry(cat, d) ==
    [category |-> cat, name |-> d.name, description |-> d.comment.doc,
     fn_type |-> d.comment.doc_type]

\* line 81
ident(e) == LibPrefix \o e.category \o <<".">> \o e.name

\* lines 84-85
SectionStartEvents(e) ==
    <<start_element("section", <<attr("xml:id", EntryIdPrefix \o ident(e))>>)>>

SectionTitleEventsUnclosed(e) ==
    <<start_element("title", <<>>), start_element("function", <<>>),
      characters(ident(e)), end_element>>

\* lines 88-92
SectionTitleEvents(e) ==
    <<start_element("title", <<>>), start_element("function", <<>>),
      characters(ident(e)), end_element, end_element>>

\* lines 96-100
SectionSubtitleEvents(e) ==
    <<start_element("subtitle", <<>>), start_element("literal", <<>>),
      characters(e.fn_type[1]), end_element, end_element>>

\* lines 105-107
SectionParaEvents(e) ==
    <<start_element("para", <<>>), characters(e.description), end_element>>

\* lines 216-222
WrapperStartEvents ==
    <<start_element("section",
                    <<attr("xmlns", DocbookNs), attr("xmlns:xlink", XlinkNs),
                      attr("xmlns:xi", XIncludeNs),
                      attr("xml:id", WrapperIdPrefix \o category)>>)>>

\* lines 224-226
WrapperTitleEvents ==
    <<start_element("title", <<>>), characters(description), end_element>>

WriteFailedThenClosed ==
    /\ pc' = "panic"
    /\ sink' = Append(sink, end_element)
    /\ UNCHANGED step

\* the Err of a write: .unwrap() in main (lines 222-232), `?` in
\* write_section_xml and .expect at its call (line 229) end the run
WriteFailed ==
    /\ pc' = "panic"
    /\ UNCHANGED <<sink, step>>

\* one writer.write of a block of consecutive writes: the event is accepted
\* and the program goes on to the next write, or the write fails
WriteBlock(events, next) ==
    /\ calls' = calls + 1
    /\ \/ /\ sink' = Append(sink, events[step])
          /\ IF step = Len(events)
             THEN pc' = next /\ step' = 1
             ELSE step' = step + 1 /\ UNCHANGED pc
       \/ WriteFailed

\* the nodes and the options of the runs checked
Math ==
    <<"m", "a", "t", "h">>
MathFunctions ==
    <<"M", "a", "t", "h", " ", "f", "u", "n", "c", "t", "i", "o", "n", "s">>
Strings ==
    <<"s", "t", "r", "i", "n", "g", "s">>
StringFunctions ==
    <<"S", "t", "r", "i", "n", "g", " ", "f", "u", "n", "c", "t", "i", "o",
      "n", "s">>
Double ==
    <<"d", "o", "u", "b", "l", "e">>
\* "bar\nType: foo"
BarTypeFoo ==
    <<"b", "a", "r", "\n", "T", "y", "p", "e", ":", " ", "f", "o", "o">>

DoubleNode == Ident(Double, <<BlockComment(DoubleComment)>>)
NodeA == Ident(<<"a">>, <<LineComment(Foo), Newlines, BlockComment(Foo)>>)
NodeB == Ident(<<"b">>, <<>>)
NodeC == Ident(<<"c">>, <<Spaces, BlockComment(BarTypeFoo)>>)
NodeBLine == Ident(<<"b">>, <<LineComment(Foo)>>)
NodeToken == Token(<<BlockComment(Foo)>>)

NodeChoices == {DoubleNode, NodeA, NodeB, NodeC, NodeBLine, NodeToken}

Arenas == UNION {[1..n -> NodeChoices] : n \in 0..MaxNodes}

RunOptions ==
    {[category |-> Math, description |-> MathFunctions],
     [category |-> Strings, description |-> StringFunctions]}

Init ==
    /\ pc = "collect"
    /\ arena \in Arenas
    /\ \E o \in RunOptions :
           category = o.category /\ description = o.description
    /\ next_node = 0
    /\ entries = <<>>
    /\ next_entry = 0
    /\ step = 1
    /\ sink = <<>>
    /\ calls = 0
    /\ IdleParse /\ IdleItem

renderVars == <<arena, category, description, next_node, entries, next_entry>>

\* lines 201-210: the iterator chain takes the next node of the arena
Collect ==
    /\ pc = "collect" /\ next_node < Len(arena)
    /\ LET d == retrieve_doc_item(arena[next_node + 1])
       IN  entries' = IF d = None THEN entries
                      ELSE Append(entries, ManualEntry(category, d[1]))
    /\ next_node' = next_node + 1
    /\ UNCHANGED <<pc, arena, category, description, next_entry, step, sink,
                   calls, parseVars, itemVars>>

\* lines 210-214: the arena is exhausted, the writer is created
Collected ==
    /\ pc = "collect" /\ next_node = Len(arena)
    /\ pc' = "wrapper"
    /\ UNCHANGED <<mainVars, parseVars, itemVars>>

\* lines 216-222
WrapperStart ==
    /\ pc = "wrapper"
    /\ WriteBlock(WrapperStartEvents, "title")
    /\ UNCHANGED <<renderVars, parseVars, itemVars>>

\* lines 224-226
WrapperTitle ==
    /\ pc = "title"
    /\ WriteBlock(WrapperTitleEvents, "entries")
    /\ UNCHANGED <<renderVars, parseVars, itemVars>>

\* line 228: the for loop takes the next entry
ForEntry ==
    /\ pc = "entries" /\ next_entry < Len(entries)
    /\ next_entry' = next_entry + 1
    /\ pc' = "section"
    /\ UNCHANGED <<arena, category, description, next_node, entries, step,
                   sink, calls, parseVars, itemVars>>

\* line 228: the for loop is over
ForDone ==
    /\ pc = "entries" /\ next_entry = Len(entries)
    /\ pc' = "close"
    /\ UNCHANGED <<mainVars, parseVars, itemVars>>

\* lines 84-85
SectionStart ==
    /\ pc = "section"
    /\ WriteBlock(SectionStartEvents(entries[next_entry]), "section_title")
    /\ UNCHANGED <<renderVars, parseVars, itemVars>>

\* lines 88-95
SectionTitle ==
    /\ pc = "section_title"
    /\ WriteBlock(SectionTitleEvents(entries[next_entry]),
                  IF entries[next_entry].fn_type # None
                  THEN "section_subtitle" ELSE "section_para")
    /\ UNCHANGED <<renderVars, parseVars, itemVars>>

\* lines 96-100
SectionSubtitle ==
    /\ pc = "section_subtitle"
    /\ WriteBlock(SectionSubtitleEvents(entries[next_entry]), "section_para")
    /\ UNCHANGED <<renderVars, parseVars, itemVars>>

\* lines 105-107
SectionPara ==
    /\ pc = "section_para"
    /\ WriteBlock(SectionParaEvents(entries[next_entry]), "section_end")
    /\ UNCHANGED <<renderVars, parseVars, itemVars>>

\* lines 110-112
SectionEnd ==
    /\ pc = "section_end"
    /\ WriteBlock(<<end_element>>, "entries")
    /\ UNCHANGED <<renderVars, parseVars, itemVars>>

\* line 232
WrapperEnd ==
    /\ pc = "close"
    /\ WriteBlock(<<end_element>>, "done")
    /\ UNCHANGED <<renderVars, parseVars, itemVars>>

Next ==
    \/ Collect \/ Collected
    \/ WrapperStart \/ WrapperTitle
    \/ ForEntry \/ ForDone
    \/ SectionStart \/ SectionTitle \/ SectionSubtitle \/ SectionPara
    \/ SectionEnd
    \/ WrapperEnd

Spec == Init /\ [][Next]_vars

(***************************************************************************)
(* Claims about main, checked under Spec.                                  *)
(***************************************************************************)
\* the document a run is due to write, event by event
ExpectedSection(cat, e) ==
    <<start_element("section",
                    <<attr("xml:id",
                           EntryIdPrefix \o LibPrefix \o cat \o <<".">>
                           \o e.name)>>),
      start_element("title", <<>>),
      start_element("function", <<>>),
      characters(LibPrefix \o cat \o <<".">> \o e.name),
      end_element,
      end_element>>
    \o (IF e.fn_type = None THEN <<>>
        ELSE <<start_element("subtitle", <<>>),
               start_element("literal", <<>>),
               characters(e.fn_type[1]),
               end_element,
               end_element>>)
    \o <<start_element("para", <<>>),
         characters(e.description),
         end_element,
         end_element>>

ExpectedDocument(cat, descr, es) ==
    <<start_element("section",
                    <<attr("xmlns", DocbookNs), attr("xmlns:xlink", XlinkNs),
                      attr("xmlns:xi", XIncludeNs),
                      attr("xml:id", WrapperIdPrefix \o cat)>>),
      start_element("title", <<>>),
      characters(descr),
      end_element>>
    \o Concat([i \in 1..Len(es) |-> ExpectedSection(cat, es[i])])
    \o <<end_element>>

\* the number of elements open after the events s
Depth(s) ==
    Cardinality({i \in 1..Len(s) : s[i].event = "start_element"})
    - Cardinality({i \in 1..Len(s) : s[i].event = "end_element"})

IsPrefix(s, t) == Len(s) <= Len(t) /\ s = SubSeq(t, 1, Len(s))

\* the texts written right after the start of an element `name`
TextsOf(s, name) ==
    LET at == {i \in 2..Len(s) :
                  /\ s[i].event = "characters"
                  /\ s[i - 1].event = "start_element"
                  /\ s[i - 1].name = name}
        pick[i \in 0..Len(s)] ==
            IF i = 0 THEN <<>>
            ELSE IF i \in at THEN Append(pick[i - 1], s[i].text)
            ELSE pick[i - 1]
    IN  pick[Len(s)]

DoublesANumber ==
    <<"D", "o", "u", "b", "l", "e", "s", " ", "a", " ", "n", "u", "m", "b",
      "e", "r", ".">>
IntToInt ==
    <<"i", "n", "t", " ", "-", ">", " ", "i", "n", "t">>
LibMathDouble ==
    <<"l", "i", "b", ".", "m", "a", "t", "h", ".", "d", "o", "u", "b", "l",
      "e">>

\* C1 (as claimed): the identifier `double` with the quoted block comment,
\* category "math" and description "Math functions": the wrapping section
\* is titled "Math functions" and holds one nested section with title text
\* lib.math.double, subtitle text `int -> int` and paragraph text exactly
\* `Doubles a number.`.
C1_EndToEnd ==
    (/\ pc = "done"
     /\ arena = <<DoubleNode>>
     /\ category = Math
     /\ description = MathFunctions)
    => /\ Cardinality({i \in 1..Len(sink) :
                          /\ sink[i].event = "start_element"
                          /\ sink[i].name = "section"}) = 2
       /\ TextsOf(sink, "title") = <<MathFunctions>>
       /\ TextsOf(sink, "function") = <<LibMathDouble>>
       /\ TextsOf(sink, "literal") = <<IntToInt>>
       /\ TextsOf(sink, "para") = <<DoublesANumber>>

\* an identifier with a block comment among its leading trivia
Documented(n) ==
    n.kind = "Ident" /\ \E i \in 1..Len(n.leading) : IsBlock(n.leading[i])

C8_SinkSequence ==
    /\ Depth(sink) >= 0
    /\ pc \notin {"collect", "panic"} =>
           IsPrefix(sink, ExpectedDocument(category, description, entries))
    /\ pc = "done" =>
           /\ sink = ExpectedDocument(category, description, entries)
           /\ Depth(sink) = 0

\* a finished run with an entry that has a type and one that has none
C8_Witness ==
    /\ pc = "done"
    /\ \E i, j \in 1..Len(entries) :
           entries[i].fn_type = None /\ entries[j].fn_type # None
    /\ Len(sink) = 5 + 10 + 15

\* C9: a failed write ends the run at that write: the sink holds exactly the
\* events written before it, the failed event is not written and not
\* retried, nothing follows, and the elements then open stay open.
C9_FatalWriteFailure ==
    /\ pc # "panic" => calls = Len(sink)
    /\ pc = "panic" =>
           /\ calls = Len(sink) + 1
           /\ calls <= Len(ExpectedDocument(category, description, entries))
           /\ sink = SubSeq(ExpectedDocument(category, description, entries),
                            1, calls - 1)
           /\ sink # <<>> => Depth(sink) >= 1
           /\ ~ ENABLED Next

\* a write fails inside the first entry's section while a second entry waits
C9_Witness ==
    /\ pc = "panic"
    /\ Len(entries) >= 2
    /\ next_entry = 1
    /\ Depth(sink) >= 2

====
